---- MODULE Spec2Model ----
(***************************************************************************)
(* Model of the delete-package-versions action (src/index.ts, src/main.ts).*)
(*                                                                         *)
(* run() validates the inputs and calls deletePackageVersions(), which     *)
(* looks the owner up once and then, package after package, lists the      *)
(* package's versions, deletes the listed versions whose name is one of    *)
(* the requested versions and, when the registry refused to delete the     *)
(* last version, deletes the package.  The registry is the environment:    *)
(* every call returns either a result or one of the failures in Errors.    *)
(* One action models the code from one await to the next.                  *)
(***************************************************************************)
EXTENDS Integers, Sequences, FiniteSets, TLC

(* ---- bounds of the model ------------------------------------------- *)
MaxPkgs == 2
MaxVersions == 2

(* ---- the values the inputs and the registry's answers are drawn from *)
PkgNames == {"libA", "libB"}
Labels == {"1.0.0", "2.0.0"}
UserTypes == {"User", "Organization", "Bot"}

SeqsUpTo(S, n) == UNION {[1..k -> S] : k \in 1..n}

\* The requested versions: long enough for every label, either order and a
\* repeated label to occur.
RequestedVersions == SeqsUpTo(Labels, Cardinality(Labels))

\* The name the registry gives the version with this id.
VersionName(id) == IF id % 2 = 1 THEN "1.0.0" ELSE "2.0.0"

Version(id) == [id |-> id, name |-> VersionName(id)]

\* The flat listings paginate() can return: versions with distinct ids, in
\* whatever order the registry chooses.
Listings ==
  {<<>>} \cup
  {l \in UNION {[1..k -> {Version(i) : i \in 1..MaxVersions}] : k \in 1..MaxVersions} :
      \A i, j \in DOMAIN l : i # j => l[i].id # l[j].id}

(* ---- failures of a registry call ----------------------------------- *)
NotFoundMessage == <<"Not", "Found">>
ServerErrorMessage == <<"Server", "Error">>
LastVersionMessage ==
  <<"Cannot", "delete", "the", "last", "version", "of", "a", "package">>

\* new RequestError(message, status, ...)
RequestError(message, status) ==
  [isRequestError |-> TRUE, status |-> status, message |-> message]

\* new Error(message): not a RequestError, it has no status
PlainError(message) ==
  [isRequestError |-> FALSE, status |-> 0, message |-> message]

NoError == [isRequestError |-> FALSE, status |-> 0, message |-> <<>>]

Errors ==
  { RequestError(NotFoundMessage, 404),
    RequestError(LastVersionMessage, 404),
    RequestError(LastVersionMessage, 400),
    RequestError(ServerErrorMessage, 500),
    PlainError(ServerErrorMessage),
    PlainError(LastVersionMessage) }

\* What a call can return: a result (ok) or a thrown error.
Resolved(type, versions) ==
  [ok |-> TRUE, type |-> type, versions |-> versions, error |-> NoError]
Rejected(e) ==
  [ok |-> FALSE, type |-> "", versions |-> <<>>, error |-> e]

LookupResponses == {Resolved(t, <<>>) : t \in UserTypes} \cup {Rejected(e) : e \in Errors}
ListResponses == {Resolved("", l) : l \in Listings} \cup {Rejected(e) : e \in Errors}
DeleteResponses == {Resolved("", <<>>)} \cup {Rejected(e) : e \in Errors}

(* ---- pure parts of the code ----------------------------------------- *)

\* String.prototype.includes on messages taken as sequences of words.
Includes(message, needle) ==
  \E i \in 0..(Len(message) - Len(needle)) :
     \A j \in 1..Len(needle) : message[i + j] = needle[j]

LastVersionNeedle == <<"last", "version", "of", "a", "package">>

\* versions.includes(version.name)
InVersions(versions, name) == \E i \in DOMAIN versions : versions[i] = name

RECURSIVE Filter(_, _)
Filter(all, versions) ==
  IF all = <<>> THEN <<>>
  ELSE IF InVersions(versions, Head(all).name)
       THEN <<Head(all)>> \o Filter(Tail(all), versions)
       ELSE Filter(Tail(all), versions)

\* A mutant of VersionsToDelete: the filter is dropped.
VersionsToDeleteUnfiltered(allVersions, versions) == allVersions

\* A mutant of VersionsToDelete: only the first match is kept.
VersionsToDeleteFirstOnly(allVersions, versions) ==
  IF Filter(allVersions, versions) = <<>> THEN <<>>
  ELSE <<Head(Filter(allVersions, versions))>>

RECURSIVE Reverse(_)
Reverse(q) == IF q = <<>> THEN <<>> ELSE Reverse(Tail(q)) \o <<Head(q)>>

\* A mutant of VersionsToDelete: the matches are taken in reverse order.
VersionsToDeleteReversed(allVersions, versions) ==
  Reverse(Filter(allVersions, versions))

RECURSIVE ByLabel(_, _)
ByLabel(all, versions) ==
  IF versions = <<>> THEN <<>>
  ELSE Filter(all, <<Head(versions)>>) \o ByLabel(all, Tail(versions))

\* A mutant of VersionsToDelete: the matches are collected label by label,
\* in the order of the requested versions.
VersionsToDeleteByLabel(allVersions, versions) == ByLabel(allVersions, versions)

\* allVersions.filter((version) => versions.includes(version.name))
VersionsToDelete(allVersions, versions) == Filter(allVersions, versions)

\* Which listing call is used (userType === "Organization").
ListVariant(userType) == IF userType = "Organization" THEN "org" ELSE "user"

\* A mutant of DeleteVersionVariant: the test is inverted.
DeleteVersionVariantInverted(userType) ==
  IF userType = "Organization" THEN "user" ELSE "org"

\* Which version-delete call is used.
DeleteVersionVariant(userType) ==
  IF userType = "Organization" THEN "org" ELSE "user"

\* Which package-delete call is used.
DeletePackageVariant(userType) ==
  IF userType = "Organization" THEN "org" ELSE "user"

\* A mutant of ListErrorClass: a missing package is fatal.
ListErrorClassAllFatal(e) == "fatal"

\* A mutant of ListErrorClass: every listing failure is skipped.
ListErrorClassAllSkipped(e) == "notfound"

\* The catch of the listing call.
ListErrorClass(e) ==
  IF e.isRequestError /\ e.status = 404 THEN "notfound" ELSE "fatal"

\* A mutant of DeleteErrorClass: an unexpected failure is swallowed.
DeleteErrorClassSwallow(e) ==
  IF e.isRequestError
  THEN IF e.status = 404 THEN "notfound"
       ELSE IF Includes(e.message, LastVersionNeedle) THEN "lastversion"
       ELSE "notfound"
  ELSE "notfound"

\* A mutant of DeleteErrorClass: a missing version sets the flag.
DeleteErrorClassNotFoundFlags(e) ==
  IF e.isRequestError
  THEN IF e.status = 404 THEN "lastversion"
       ELSE IF Includes(e.message, LastVersionNeedle) THEN "lastversion"
       ELSE "fatal"
  ELSE "fatal"

\* A mutant of DeleteErrorClass: the last-version refusal is handled as a
\* missing version, the flag is not set.
DeleteErrorClassRefusalIgnored(e) ==
  IF e.isRequestError
  THEN IF e.status = 404 THEN "notfound"
       ELSE IF Includes(e.message, LastVersionNeedle) THEN "notfound"
       ELSE "fatal"
  ELSE "fatal"

\* A mutant of DeleteErrorClass: the message is tested before the status.
DeleteErrorClassMessageFirst(e) ==
  IF e.isRequestError
  THEN IF Includes(e.message, LastVersionNeedle) THEN "lastversion"
       ELSE IF e.status = 404 THEN "notfound"
       ELSE "fatal"
  ELSE "fatal"

\* The catch of the version-delete call.
DeleteErrorClass(e) ==
  IF e.isRequestError
  THEN IF e.status = 404 THEN "notfound"
       ELSE IF Includes(e.message, LastVersionNeedle) THEN "lastversion"
       ELSE "fatal"
  ELSE "fatal"

\* A mutant of PackageErrorClass: every package-delete failure is skipped.
PackageErrorClassAllSkipped(e) == "notfound"

\* The catch of the package-delete call.
PackageErrorClass(e) ==
  IF e.isRequestError /\ e.status = 404 THEN "notfound" ELSE "fatal"

\* A mutant of AfterLookup: a failed lookup is ignored.
AfterLookupIgnoreFailure(resp) == "list"

\* Where deletePackageVersions goes after the lookup: the call is not in a
\* try block, so a rejection leaves the function.
AfterLookup(resp) == IF resp.ok THEN "list" ELSE "failed"

\* A mutant of AfterVersion: the package is deleted as soon as the flag is set.
AfterVersionEager(vIdx, n, flag) ==
  IF flag THEN "pkgdelete"
  ELSE IF vIdx < n THEN "delete" ELSE "next"

\* A mutant of AfterVersion: the package is never deleted.
AfterVersionNoPackageDelete(vIdx, n, flag) ==
  IF vIdx < n THEN "delete" ELSE "next"

\* Where the code goes after the body of the version loop: the next
\* matched version, else the package delete when the flag is set, else the
\* next package.
AfterVersion(vIdx, n, flag) ==
  IF vIdx < n THEN "delete"
  ELSE IF flag THEN "pkgdelete" ELSE "next"

\* A mutant of FlagAtLoopStart: the flag of the previous package is kept.
FlagAtLoopStartCarried(previous) == previous

\* let shouldDeletePackage = false, declared inside the package loop.
FlagAtLoopStart(previous) == FALSE

\* log(header, message, level): the channel of @actions/core the line goes to.
LogLine(kind, level, pkg, id) ==
  [channel |-> CASE level = "default" -> "info"
                 [] level = "error" -> "error"
                 [] level = "warn" -> "warning",
   kind |-> kind, pkg |-> pkg, id |-> id]

(* ---- the action's inputs as strings ---------------------------------- *)

\* The value of a comma-separated input: names and commas, no two names
\* next to each other, at most n fields.
RawStrings(names, n) ==
  {s \in UNION {[1..k -> names \cup {","}] : k \in 0..(2 * n - 1)} :
     /\ \A i \in 1..(Len(s) - 1) : s[i] = "," \/ s[i + 1] = ","
     /\ Cardinality({i \in DOMAIN s : s[i] = ","}) < n}

RECURSIVE SplitFrom(_, _)
SplitFrom(s, field) ==
  IF s = <<>> THEN <<field>>
  ELSE IF Head(s) = "," THEN <<field>> \o SplitFrom(Tail(s), "")
       ELSE SplitFrom(Tail(s), Head(s))

\* A mutant of Split: the fields come out in reverse order.
SplitReversed(s) == Reverse(SplitFrom(s, ""))

\* String.prototype.split(","): the fields between the commas, the empty
\* ones included; the empty string has one empty field.
Split(s) == SplitFrom(s, "")

\* The environment of a run started by main.ts: what getInput() returns for
\* each input and context.repo.owner.
DefaultEnv ==
  [github_token |-> "token", package_type |-> "npm", owner |-> "acme",
   repo_owner |-> "repo-owner", packages |-> <<"libA">>,
   versions |-> <<"1.0.0">>]

\* The environment of a run started with a WorkflowInput: nothing is read.
NoEnv ==
  [github_token |-> "", package_type |-> "", owner |-> "",
   repo_owner |-> "", packages |-> <<>>, versions |-> <<>>]

\* The environments of the model: the owner input given or not, and one
\* other input of the default environment changed.
MainEnvs ==
  UNION {
    {[DefaultEnv EXCEPT !.owner = o, !.package_type = t] : t \in {"", "npm"}} \cup
    {[DefaultEnv EXCEPT !.owner = o, !.packages = p] : p \in RawStrings(PkgNames, MaxPkgs)} \cup
    {[DefaultEnv EXCEPT !.owner = o, !.versions = v] : v \in RawStrings(Labels, Cardinality(Labels))}
    : o \in {"", "acme"}}

(* ---- a registry that answers faithfully ------------------------------- *)

\* The ids of the versions of a package, in the order the registry lists
\* them; no version: the package does not exist.
IdLists ==
  {<<>>} \cup
  {l \in UNION {[1..k -> 1..MaxVersions] : k \in 1..MaxVersions} :
      \A i, j \in DOMAIN l : i # j => l[i] # l[j]}

Registries == [kind : UserTypes, pkgs : [PkgNames -> IdLists]]

\* The registry of a run whose calls are answered in any way.
NoRegistry == [kind |-> "", pkgs |-> [p \in PkgNames |-> <<>>]]

HasVersion(reg, name, id) == \E i \in DOMAIN reg.pkgs[name] : reg.pkgs[name][i] = id

\* The answers of a registry in state reg.
LookupAnswer(reg) == Resolved(reg.kind, <<>>)

ListAnswer(reg, name) ==
  IF reg.pkgs[name] = <<>>
  THEN Rejected(RequestError(NotFoundMessage, 404))
  ELSE Resolved("", [i \in DOMAIN reg.pkgs[name] |-> Version(reg.pkgs[name][i])])

DeleteVersionAnswer(reg, name, id) ==
  IF ~HasVersion(reg, name, id) THEN Rejected(RequestError(NotFoundMessage, 404))
  ELSE IF Len(reg.pkgs[name]) = 1 THEN Rejected(RequestError(LastVersionMessage, 400))
  ELSE Resolved("", <<>>)

DeletePackageAnswer(reg, name) ==
  IF reg.pkgs[name] = <<>>
  THEN Rejected(RequestError(NotFoundMessage, 404))
  ELSE Resolved("", <<>>)

\* ... and its state after a call that succeeded.
WithoutVersion(reg, name, id) ==
  [reg EXCEPT !.pkgs[name] = SelectSeq(@, LAMBDA v : v # id)]

WithoutPackage(reg, name) == [reg EXCEPT !.pkgs[name] = <<>>]

(* ---- state ------------------------------------------------------------ *)
VARIABLES
  env,                 \* getInput() values and context.repo.owner
  githubToken, owner, packageType, packages, versions, \* the WorkflowInput
  pc,                  \* where the run is
  userType,            \* userInfo.data.type
  pkgIdx,              \* position of the package loop in packages
  allVersions,         \* the listing of the current package
  versionsToDelete,    \* its matched versions
  vIdx,                \* position of the version loop in versionsToDelete
  shouldDeletePackage, \* the flag of the current package
  runError,            \* the reason run() rejected with (setFailed)
  calls,               \* registry calls issued since the current iteration of
                       \* the package loop began (before it: the lookup)
  logs,                \* log lines written since then
  listed,              \* positions of packages listed so far, in order
  variantsUsed,        \* call variants used so far in the run
  lookups,             \* number of account lookups so far
  registry,            \* the registry's state, when it answers faithfully
  registry0,           \* ... and its state before the first run
  runNo                \* 1 for the first run of the action, 2 for the second

vars == <<env, githubToken, owner, packageType, packages, versions, pc,
          userType, pkgIdx, allVersions, versionsToDelete, vIdx,
          shouldDeletePackage, runError, calls, logs, listed, variantsUsed,
          lookups, registry, registry0, runNo>>

inputVars == <<githubToken, owner, packageType, packages, versions>>

\* What no step of a run changes.
outerVars == <<env, registry0, runNo>>

\* A registry call: the endpoint, its variant, the package (its position in
\* packages and the package_name passed), the package_version_id, the answer.
Call(op, variant, pkg, name, id, resp) ==
  [op |-> op, variant |-> variant, pkg |-> pkg, name |-> name, id |-> id,
   resp |-> resp]

\* The locals of a run before its first step.
RunStart ==
  /\ userType = ""
  /\ pkgIdx = 1
  /\ allVersions = <<>>
  /\ versionsToDelete = <<>>
  /\ vIdx = 1
  /\ shouldDeletePackage = FALSE
  /\ runError = NoError
  /\ calls = <<>>
  /\ logs = <<>>
  /\ listed = <<>>
  /\ variantsUsed = {}
  /\ lookups = 0

\* run(inputs) called with a WorkflowInput, as the tests do; the registry
\* answers in any way.
Init ==
  /\ env = NoEnv
  /\ githubToken \in {"", "token"}
  /\ owner \in {"", "acme"}
  /\ packageType \in {"", "npm"}
  /\ packages \in SeqsUpTo(PkgNames, MaxPkgs)
  /\ versions \in RequestedVersions
  /\ pc = "start"
  /\ RunStart
  /\ registry = NoRegistry
  /\ registry0 = NoRegistry
  /\ runNo = 1

\* main.ts: run(getInputs()); the registry answers in any way.
InitMain ==
  /\ env \in MainEnvs
  /\ githubToken = ""
  /\ owner = ""
  /\ packageType = ""
  /\ packages = <<>>
  /\ versions = <<>>
  /\ pc = "inputs"
  /\ RunStart
  /\ registry = NoRegistry
  /\ registry0 = NoRegistry
  /\ runNo = 1

\* run(inputs) with valid inputs against a registry that answers faithfully.
InitFaithful ==
  /\ env = NoEnv
  /\ githubToken = "token"
  /\ owner = "acme"
  /\ packageType = "npm"
  /\ packages \in SeqsUpTo(PkgNames, MaxPkgs)
  /\ versions \in RequestedVersions
  /\ pc = "start"
  /\ RunStart
  /\ registry \in Registries
  /\ registry0 = registry
  /\ runNo = 1

\* getOwner(): the owner input, else the owner of the repository.
GetOwner == IF env.owner # "" THEN env.owner ELSE env.repo_owner

\* getInputs()
GetInputs ==
  /\ pc = "inputs"
  /\ githubToken' = env.github_token
  /\ packageType' = env.package_type
  /\ packages' = Split(env.packages)
  /\ versions' = Split(env.versions)
  /\ owner' = GetOwner
  /\ pc' = "start"
  /\ UNCHANGED <<outerVars, registry, userType, pkgIdx, allVersions,
                 versionsToDelete, vIdx, shouldDeletePackage, runError, calls,
                 logs, listed, variantsUsed, lookups>>

\* validateInputField, applied to the five fields in the order of run().
\* packages and versions are arrays, never null.
FirstInvalid ==
  IF packageType = "" THEN "packageType"
  ELSE IF githubToken = "" THEN "githubToken"
  ELSE IF owner = "" THEN "owner"
  ELSE "none"

\* run(): validate the inputs; process.exit(1) on the first invalid one.
Run ==
  /\ pc = "start"
  /\ IF FirstInvalid # "none"
     THEN /\ pc' = "exited"
          /\ logs' = <<LogLine(FirstInvalid, "error", 0, 0)>>
     ELSE /\ pc' = "lookup"
          /\ logs' = << LogLine("givenOwner", "default", 0, 0),
                        LogLine("givenPackageType", "default", 0, 0),
                        LogLine("givenPackages", "default", 0, 0),
                        LogLine("givenVersions", "default", 0, 0) >>
  /\ UNCHANGED <<outerVars, registry, inputVars, userType, pkgIdx, allVersions,
                 versionsToDelete, vIdx, shouldDeletePackage, runError, calls,
                 listed, variantsUsed, lookups>>

\* octokit.rest.users.getByUsername({username: owner}), answered by resp.
LookupStep(resp) ==
  /\ pc = "lookup"
  /\ calls' = <<Call("getByUsername", "none", 0, owner, 0, resp)>>
  /\ lookups' = lookups + 1
  /\ pc' = IF AfterLookup(resp) = "list" /\ pkgIdx > Len(packages)
           THEN "done" ELSE AfterLookup(resp)
  /\ userType' = resp.type
  /\ runError' = IF AfterLookup(resp) = "failed" THEN resp.error ELSE runError
  /\ logs' = IF AfterLookup(resp) = "failed" THEN logs
             ELSE Append(logs, LogLine("ownerType", "default", 0, 0))
  /\ UNCHANGED <<outerVars, inputVars, pkgIdx, allVersions, versionsToDelete,
                 vIdx, shouldDeletePackage, listed, variantsUsed>>

Lookup ==
  /\ \E resp \in LookupResponses : LookupStep(resp)
  /\ UNCHANGED registry

\* A mutant of NextPackage: the loop steps over a package.
NextPackageSkip ==
  /\ pkgIdx' = pkgIdx + 2
  /\ pc' = IF pkgIdx + 1 < Len(packages) THEN "list" ELSE "done"

\* A mutant of NextPackage: the loop starts over with the same package.
NextPackageRepeat ==
  /\ pkgIdx' = pkgIdx
  /\ pc' = "list"

\* The end of one iteration of the package loop (continue, or its last line).
NextPackage ==
  /\ pkgIdx' = pkgIdx + 1
  /\ pc' = IF pkgIdx < Len(packages) THEN "list" ELSE "done"

\* One iteration of the package loop up to its first version-delete call:
\* the listing, answered by resp, its catch, the filter and the no-match
\* test.
ListStep(resp) ==
  /\ pc = "list"
  /\ LET variant == ListVariant(userType)
         call == Call("listVersions", variant, pkgIdx, packages[pkgIdx], 0, resp)
         matched == VersionsToDelete(resp.versions, versions)
     IN
     /\ calls' = <<call>>
     /\ listed' = Append(listed, pkgIdx)
     /\ variantsUsed' = variantsUsed \cup {variant}
     /\ IF ~resp.ok
        THEN IF ListErrorClass(resp.error) = "notfound"
             THEN /\ logs' = <<LogLine("packageNotFound", "warn", pkgIdx, 0)>>
                  /\ NextPackage
                  /\ UNCHANGED <<allVersions, versionsToDelete, vIdx,
                                 shouldDeletePackage, runError>>
             ELSE /\ logs' = <<LogLine("listFailed", "error", pkgIdx, 0)>>
                  /\ pc' = "failed"
                  /\ runError' = resp.error
                  /\ UNCHANGED <<pkgIdx, allVersions, versionsToDelete, vIdx,
                                 shouldDeletePackage>>
        ELSE /\ allVersions' = resp.versions
             /\ versionsToDelete' = matched
             /\ IF Len(matched) = 0
                THEN /\ logs' = <<LogLine("noMatchingVersions", "default", pkgIdx, 0)>>
                     /\ NextPackage
                     /\ UNCHANGED <<vIdx, shouldDeletePackage, runError>>
                ELSE /\ logs' = <<>>
                     /\ shouldDeletePackage' = FlagAtLoopStart(shouldDeletePackage)
                     /\ vIdx' = 1
                     /\ pc' = "delete"
                     /\ UNCHANGED <<pkgIdx, runError>>
  /\ UNCHANGED <<outerVars, inputVars, userType, lookups>>

List ==
  /\ \E resp \in ListResponses : ListStep(resp)
  /\ UNCHANGED registry

\* One iteration of the version loop: the delete call, answered by resp, and
\* its catch.
DeleteVersionStep(resp) ==
  /\ pc = "delete"
  /\ LET variant == DeleteVersionVariant(userType)
         version == versionsToDelete[vIdx]
         call == Call("deleteVersion", variant, pkgIdx, packages[pkgIdx], version.id, resp)
         class == IF resp.ok THEN "ok" ELSE DeleteErrorClass(resp.error)
         flag == shouldDeletePackage \/ class = "lastversion"
         intent == LogLine("deletingVersion", "default", pkgIdx, version.id)
         after == AfterVersion(vIdx, Len(versionsToDelete), flag)
     IN
     /\ calls' = Append(calls, call)
     /\ variantsUsed' = variantsUsed \cup {variant}
     /\ IF class = "fatal"
        THEN /\ logs' = logs \o <<intent, LogLine("deleteVersionFailed", "error", pkgIdx, version.id)>>
             /\ pc' = "failed"
             /\ runError' = resp.error
             /\ UNCHANGED <<pkgIdx, vIdx, shouldDeletePackage>>
        ELSE /\ logs' = logs \o
                  << intent,
                     CASE class = "ok" -> LogLine("deletedVersion", "default", pkgIdx, version.id)
                       [] class = "notfound" -> LogLine("versionNotFound", "default", pkgIdx, version.id)
                       [] class = "lastversion" -> LogLine("lastVersion", "default", pkgIdx, version.id) >>
             /\ shouldDeletePackage' = flag
             /\ runError' = runError
             /\ CASE after = "delete" ->
                       /\ vIdx' = vIdx + 1
                       /\ pc' = "delete"
                       /\ pkgIdx' = pkgIdx
                  [] after = "pkgdelete" ->
                       /\ vIdx' = vIdx
                       /\ pc' = "pkgdelete"
                       /\ pkgIdx' = pkgIdx
                  [] after = "next" ->
                       /\ vIdx' = vIdx
                       /\ NextPackage
  /\ UNCHANGED <<outerVars, inputVars, userType, allVersions, versionsToDelete,
                 listed, lookups>>

DeleteVersion ==
  /\ \E resp \in DeleteResponses : DeleteVersionStep(resp)
  /\ UNCHANGED registry

\* The package delete after the version loop, answered by resp, and its
\* catch.
DeletePackageStep(resp) ==
  /\ pc = "pkgdelete"
  /\ LET variant == DeletePackageVariant(userType)
         call == Call("deletePackage", variant, pkgIdx, packages[pkgIdx], 0, resp)
         class == IF resp.ok THEN "ok" ELSE PackageErrorClass(resp.error)
         intent == LogLine("deletingPackage", "default", pkgIdx, 0)
     IN
     /\ calls' = Append(calls, call)
     /\ variantsUsed' = variantsUsed \cup {variant}
     /\ IF class = "fatal"
        THEN /\ logs' = logs \o <<intent, LogLine("deletePackageFailed", "error", pkgIdx, 0)>>
             /\ pc' = "failed"
             /\ runError' = resp.error
             /\ UNCHANGED pkgIdx
        ELSE /\ logs' = logs \o
                  << intent,
                     IF class = "ok"
                     THEN LogLine("deletedPackage", "default", pkgIdx, 0)
                     ELSE LogLine("packageDoesNotExist", "default", pkgIdx, 0) >>
             /\ runError' = runError
             /\ NextPackage
  /\ UNCHANGED <<outerVars, inputVars, userType, allVersions, versionsToDelete,
                 vIdx, shouldDeletePackage, listed, lookups>>

DeletePackage ==
  /\ \E resp \in DeleteResponses : DeletePackageStep(resp)
  /\ UNCHANGED registry

Next == Run \/ Lookup \/ List \/ DeleteVersion \/ DeletePackage

Spec == Init /\ [][Next]_vars

\* The package lists of the runs whose end is checked: the names of the
\* model in turn, up to the longest list.
PackagesInTurn ==
  {[i \in 1..k |-> IF i % 2 = 1 THEN "libA" ELSE "libB"] : k \in 0..MaxPkgs}

\* run(inputs) as in Init, the package list one of PackagesInTurn.
InitLive ==
  /\ env = NoEnv
  /\ githubToken \in {"", "token"}
  /\ owner \in {"", "acme"}
  /\ packageType \in {"", "npm"}
  /\ packages \in PackagesInTurn
  /\ versions \in RequestedVersions
  /\ pc = "start"
  /\ RunStart
  /\ registry = NoRegistry
  /\ registry0 = NoRegistry
  /\ runNo = 1

\* Every registry call returns and the code between two calls runs on: a
\* run that can take a step takes one.
SpecLive == InitLive /\ [][Next]_vars /\ WF_vars(Next)

\* main.ts: the inputs are read, then the run.
NextMain == GetInputs \/ Next

SpecMain == InitMain /\ [][NextMain]_vars

\* The calls of a run answered by the registry in its current state.
FaithfulLookup ==
  /\ LookupStep(LookupAnswer(registry))
  /\ UNCHANGED registry

FaithfulList ==
  /\ pc = "list"
  /\ ListStep(ListAnswer(registry, packages[pkgIdx]))
  /\ UNCHANGED registry

FaithfulDeleteVersion ==
  /\ pc = "delete"
  /\ LET name == packages[pkgIdx]
         id == versionsToDelete[vIdx].id
         resp == DeleteVersionAnswer(registry, name, id)
     IN /\ DeleteVersionStep(resp)
        /\ registry' = IF resp.ok THEN WithoutVersion(registry, name, id)
                       ELSE registry

FaithfulDeletePackage ==
  /\ pc = "pkgdelete"
  /\ LET name == packages[pkgIdx]
         resp == DeletePackageAnswer(registry, name)
     IN /\ DeletePackageStep(resp)
        /\ registry' = IF resp.ok THEN WithoutPackage(registry, name)
                       ELSE registry

\* The action is run a second time with the same inputs.
Rerun ==
  /\ pc = "done"
  /\ runNo = 1
  /\ runNo' = 2
  /\ pc' = "start"
  /\ userType' = ""
  /\ pkgIdx' = 1
  /\ allVersions' = <<>>
  /\ versionsToDelete' = <<>>
  /\ vIdx' = 1
  /\ shouldDeletePackage' = FALSE
  /\ runError' = NoError
  /\ calls' = <<>>
  /\ logs' = <<>>
  /\ listed' = <<>>
  /\ variantsUsed' = {}
  /\ lookups' = 0
  /\ UNCHANGED <<env, inputVars, registry, registry0>>

NextFaithful ==
  \/ Run
  \/ FaithfulLookup
  \/ FaithfulList
  \/ FaithfulDeleteVersion
  \/ FaithfulDeletePackage
  \/ Rerun

SpecFaithful == InitFaithful /\ [][NextFaithful]_vars

\* The ids of the versions another actor publishes: ids the registry never
\* gave out before, one with each kind of label.
NewIds == (MaxVersions + 1)..(MaxVersions + 2)

\* The registry after version id was published in package name.
WithVersion(reg, name, id) == [reg EXCEPT !.pkgs[name] = Append(@, id)]

\* Another actor publishes a new version of the package the run is working
\* on, between the listing and the end of its iteration.
Publish ==
  /\ pc \in {"delete", "pkgdelete"}
  /\ \A id \in NewIds : ~HasVersion(registry, packages[pkgIdx], id)
  /\ \E id \in NewIds : registry' = WithVersion(registry, packages[pkgIdx], id)
  /\ UNCHANGED <<outerVars, inputVars, pc, userType, pkgIdx, allVersions,
                 versionsToDelete, vIdx, shouldDeletePackage, runError, calls,
                 logs, listed, variantsUsed, lookups>>

NextRace ==
  \/ Run
  \/ FaithfulLookup
  \/ FaithfulList
  \/ FaithfulDeleteVersion
  \/ FaithfulDeletePackage
  \/ Publish

\* The run against a registry that answers faithfully while another actor
\* publishes versions.
SpecRace == InitFaithful /\ [][NextRace]_vars


\* A failed run makes no further step: no call follows the failure.
FailedIsFinal == pc = "failed" => ~ENABLED Next

(* ---- vocabulary of the properties -------------------------------------- *)

\* The kinds of failure of a registry call.
IsNotFound(e) == e.isRequestError /\ e.status = 404
IsLastVersionRefusal(e) ==
  /\ e.isRequestError
  /\ e.status # 404
  /\ Includes(e.message, LastVersionNeedle)
IsUnexpected(e) == ~IsNotFound(e) /\ ~IsLastVersionRefusal(e)

LastCall == calls[Len(calls)]

\* calls holds the calls of an iteration of the package loop.
InIteration == Len(calls) > 0 /\ calls[1].op = "listVersions"

\* ... and that iteration has ended, normally or by the run failing.
IterationOver == InIteration /\ pc \in {"list", "done", "failed"}

\* The ids of the listed versions whose name was requested.
Requested == {versions[i] : i \in DOMAIN versions}
MatchedIds ==
  {calls[1].resp.versions[i].id :
     i \in {j \in DOMAIN calls[1].resp.versions :
              calls[1].resp.versions[j].name \in Requested}}

VersionDeletes == {k \in DOMAIN calls : calls[k].op = "deleteVersion"}
PackageDeletes == {k \in DOMAIN calls : calls[k].op = "deletePackage"}
VersionDeletesOf(id) == {k \in VersionDeletes : calls[k].id = id}

Refused == \E k \in VersionDeletes :
  ~calls[k].resp.ok /\ IsLastVersionRefusal(calls[k].resp.error)
FailedUnexpectedly == \E k \in VersionDeletes :
  ~calls[k].resp.ok /\ IsUnexpected(calls[k].resp.error)

Logged(channel, kind, pkg) ==
  \E i \in DOMAIN logs :
     logs[i].channel = channel /\ logs[i].kind = kind /\ logs[i].pkg = pkg


(* ---- C1 ------------------------------------------------------------------ *)

UnexpectedVersionDeleteFailure ==
  /\ InIteration
  /\ LastCall.op = "deleteVersion"
  /\ ~LastCall.resp.ok
  /\ IsUnexpected(LastCall.resp.error)

\* C1: when a version-delete call fails with anything other than not-found
\* or the last-version refusal, the run is failed with that error and makes
\* no further step: no version delete, package delete or listing follows,
\* whether or not the flag was set and whether or not packages remain.
C1_UnexpectedDeleteErrorAborts ==
  UnexpectedVersionDeleteFailure =>
     /\ pc = "failed"
     /\ runError = LastCall.resp.error
     /\ PackageDeletes = {}
     /\ FailedIsFinal

\* C1's case: the second matched version fails unexpectedly after the first
\* was refused as last version, with a package still to come.
C1_Witness ==
  /\ UnexpectedVersionDeleteFailure
  /\ shouldDeletePackage
  /\ Len(calls) = 3
  /\ pkgIdx < Len(packages)

(* ---- C2 ------------------------------------------------------------------ *)

\* Every package delete comes after a version delete of every matched version.
PackageDeleteComesLast ==
  \A k \in PackageDeletes :
     \A id \in MatchedIds : \E j \in VersionDeletesOf(id) : j < k

\* C2 as stated: after a last-version refusal the package delete is invoked
\* exactly once for the package, after a version delete of every matched
\* version.
C2_Original ==
  (IterationOver /\ Refused) =>
     /\ Cardinality(PackageDeletes) = 1
     /\ PackageDeleteComesLast

\* C2 as amended: the same, unless a version delete of the package fails
\* unexpectedly, in which case the package delete is not invoked at all; a
\* package delete is never invoked twice, and never before a version delete
\* of every matched version.
C2_PackageDeletedOnceAfterVersions ==
  InIteration =>
     /\ Cardinality(PackageDeletes) <= 1
     /\ PackageDeleteComesLast
     /\ (IterationOver /\ Refused /\ ~FailedUnexpectedly)
           => Cardinality(PackageDeletes) = 1
     /\ FailedUnexpectedly => PackageDeletes = {}

\* C2's case: the first of two matched versions was refused, the second was
\* attempted, and then the package was deleted.
C2_Witness ==
  /\ IterationOver
  /\ Cardinality(MatchedIds) = 2
  /\ ~calls[2].resp.ok /\ IsLastVersionRefusal(calls[2].resp.error)
  /\ Len(calls) = 4
  /\ calls[4].op = "deletePackage"

(* ---- C3 ------------------------------------------------------------------ *)

\* C3: no matched version is deleted twice, and once the version loop of a
\* package has run to its end every matched version has had exactly one
\* version-delete call, whatever the earlier deletes returned.
C3_ExactlyOneDeletePerMatch ==
  InIteration =>
     /\ \A id \in MatchedIds : Cardinality(VersionDeletesOf(id)) <= 1
     /\ (pc \in {"pkgdelete", "list", "done"} /\ calls[1].resp.ok)
           => \A id \in MatchedIds : Cardinality(VersionDeletesOf(id)) = 1

\* C3's case: two matched versions, the first one not deleted (not-found or
\* refused), and the loop has ended.
C3_Witness ==
  /\ InIteration
  /\ pc \in {"pkgdelete", "list", "done"}
  /\ Cardinality(MatchedIds) = 2
  /\ Cardinality(VersionDeletes) = 2
  /\ ~calls[2].resp.ok

(* ---- C4 ------------------------------------------------------------------ *)

\* C4: every version-delete call made targets an id that the listing of the
\* same package returned with a requested name.
C4_OnlyMatchedVersionsDeleted ==
  \A k \in VersionDeletes :
     /\ InIteration
     /\ calls[1].resp.ok
     /\ calls[1].pkg = calls[k].pkg
     /\ calls[1].name = calls[k].name
     /\ calls[k].id \in MatchedIds

\* C4's case: the listing has a version that was not requested and one that
\* was, and the version loop has ended.
C4_Witness ==
  /\ IterationOver
  /\ pc # "failed"
  /\ Len(calls[1].resp.versions) = 2
  /\ Cardinality(MatchedIds) = 1
  /\ Cardinality(VersionDeletes) = 1

(* ---- C5 ------------------------------------------------------------------ *)

ListingNotFound ==
  /\ InIteration
  /\ ~calls[1].resp.ok
  /\ IsNotFound(calls[1].resp.error)

\* C5: when the listing of a package fails with not-found, no version-delete
\* or package-delete call is made for it, a warning is logged, the run does
\* not fail, and the run is about to list the next package of the list (or
\* is complete when there is none); a run that completes has listed every
\* package of the list, in order.
C5_NotFoundPackageSkipped ==
  /\ ListingNotFound =>
        /\ Len(calls) = 1
        /\ Logged("warning", "packageNotFound", calls[1].pkg)
        /\ runError = NoError
        /\ pkgIdx = calls[1].pkg + 1
        /\ pc = IF calls[1].pkg < Len(packages) THEN "list" ELSE "done"
        /\ pc = "list" => ENABLED List
  /\ pc = "done" => listed = [i \in 1..Len(packages) |-> i]

\* C5's case: the first of two packages was not found and the second one is
\* about to be listed.
C5_Witness ==
  /\ ListingNotFound
  /\ calls[1].pkg = 1
  /\ Len(packages) = 2
  /\ pc = "list"

(* ---- C6 ------------------------------------------------------------------ *)

ListingWithoutMatch ==
  /\ InIteration
  /\ calls[1].resp.ok
  /\ MatchedIds = {}

\* C6: a package whose listing has no requested name (an empty listing
\* included) gets no version-delete and no package-delete call, the
\* no-matching-versions line is logged, the run goes on to the next package
\* and, when there is none, completes without a failure.
C6_NoMatchNoDelete ==
  ListingWithoutMatch =>
     /\ Len(calls) = 1
     /\ Logged("info", "noMatchingVersions", calls[1].pkg)
     /\ runError = NoError
     /\ pkgIdx = calls[1].pkg + 1
     /\ pc = IF calls[1].pkg < Len(packages) THEN "list" ELSE "done"

\* C6's case: a listing that is not empty and has no requested name, for the
\* last package of the list.
C6_Witness ==
  /\ ListingWithoutMatch
  /\ calls[1].resp.versions # <<>>
  /\ pc = "done"

(* ---- C7 ------------------------------------------------------------------ *)

ResolvedVariant == IF userType = "Organization" THEN "org" ELSE "user"

\* C7: every listing, version-delete and package-delete call of a run uses
\* the org variant if the resolved kind is Organization and the user variant
\* otherwise; the two are never both used in one run.
C7_OneVariantPerRun ==
  /\ variantsUsed \subseteq {ResolvedVariant}
  /\ \A k \in DOMAIN calls :
        calls[k].op # "getByUsername" => calls[k].variant = ResolvedVariant

\* C7's case: an organization, with a listing, a version delete and a
\* package delete made.
C7_Witness ==
  /\ userType = "Organization"
  /\ variantsUsed = {"org"}
  /\ PackageDeletes # {}
  /\ listed = <<1, 2>>

(* ---- C8 ------------------------------------------------------------------ *)

ListingFailed ==
  /\ InIteration
  /\ ~calls[1].resp.ok
  /\ ~IsNotFound(calls[1].resp.error)

\* C8: when the listing of a package fails with anything but not-found, the
\* run is failed with that error and makes no further step: no delete call
\* for the package, no listing or delete for a later package.
C8_ListingErrorAborts ==
  ListingFailed =>
     /\ Len(calls) = 1
     /\ pc = "failed"
     /\ runError = calls[1].resp.error
     /\ listed[Len(listed)] = calls[1].pkg
     /\ FailedIsFinal

\* C8's case: the listing of the first of two packages fails.
C8_Witness ==
  /\ ListingFailed
  /\ calls[1].pkg = 1
  /\ Len(packages) = 2

(* ---- C9 ------------------------------------------------------------------ *)

LookupFailed ==
  /\ Len(calls) > 0
  /\ calls[1].op = "getByUsername"
  /\ ~calls[1].resp.ok

\* C9: when the account lookup fails, not-found included, the run is failed
\* with that error and makes no further step: no listing, version-delete or
\* package-delete call is made.
C9_LookupErrorAborts ==
  LookupFailed =>
     /\ pc = "failed"
     /\ runError = calls[1].resp.error
     /\ Len(calls) = 1
     /\ listed = <<>>
     /\ variantsUsed = {}
     /\ FailedIsFinal

\* C9's case: the lookup answered not-found.
C9_Witness == LookupFailed /\ IsNotFound(calls[1].resp.error)

(* ---- C10 ----------------------------------------------------------------- *)

VersionNotFound ==
  /\ InIteration
  /\ LastCall.op = "deleteVersion"
  /\ ~LastCall.resp.ok
  /\ IsNotFound(LastCall.resp.error)

\* C10: after a version-delete call that failed with not-found, an info line
\* says so, the flag is set only if a delete of the package was refused as
\* last version, the run has not failed, and while matched versions remain
\* the loop is at the next matched version of the same package.
C10_VersionNotFoundContinues ==
  VersionNotFound =>
     /\ logs[Len(logs)] = [channel |-> "info", kind |-> "versionNotFound",
                           pkg |-> LastCall.pkg, id |-> LastCall.id]
     /\ shouldDeletePackage = Refused
     /\ pc # "failed"
     /\ runError = NoError
     /\ Cardinality(VersionDeletes) < Cardinality(MatchedIds) =>
           /\ pc = "delete"
           /\ pkgIdx = LastCall.pkg
           /\ vIdx = Cardinality(VersionDeletes) + 1
           /\ versionsToDelete[vIdx].id \in MatchedIds
           /\ VersionDeletesOf(versionsToDelete[vIdx].id) = {}

\* C10's case: the first of two matched versions was not found, the flag is
\* not set and the second one is next.
C10_Witness ==
  /\ InIteration
  /\ pc = "delete"
  /\ vIdx = 2
  /\ ~shouldDeletePackage
  /\ ~LastCall.resp.ok /\ IsNotFound(LastCall.resp.error)


(* ---- C11 ----------------------------------------------------------------- *)

\* The last call is a version delete that failed with the last-version
\* message, whatever the kind of failure.
LastVersionMessageFailure ==
  /\ InIteration
  /\ LastCall.op = "deleteVersion"
  /\ ~LastCall.resp.ok
  /\ Includes(LastCall.resp.error.message, LastVersionNeedle)

\* The last call is a version delete the registry refused as last version.
VersionRefused ==
  /\ LastVersionMessageFailure
  /\ IsLastVersionRefusal(LastCall.resp.error)

\* C11 as stated: every version-delete failure with the last-version message
\* sets the flag and does not fail the run.
C11_Original ==
  LastVersionMessageFailure =>
     /\ shouldDeletePackage
     /\ pc # "failed"
     /\ runError = NoError

\* C11 as amended: a version-delete failure that is a RequestError with a
\* status other than 404 and the last-version message sets the flag, logs an
\* info line and does not fail the run: the loop goes on to the next matched
\* version, and after the last one to the package delete.
C11_RefusalRecovered ==
  VersionRefused =>
     /\ shouldDeletePackage
     /\ logs[Len(logs)] = [channel |-> "info", kind |-> "lastVersion",
                           pkg |-> LastCall.pkg, id |-> LastCall.id]
     /\ runError = NoError
     /\ pkgIdx = LastCall.pkg
     /\ IF Cardinality(VersionDeletes) < Cardinality(MatchedIds)
        THEN /\ pc = "delete"
             /\ vIdx = Cardinality(VersionDeletes) + 1
             /\ VersionDeletesOf(versionsToDelete[vIdx].id) = {}
        ELSE pc = "pkgdelete"

\* C11's case: the first of two matched versions was refused and the second
\* one is next.
C11_Witness ==
  /\ VersionRefused
  /\ pc = "delete"
  /\ vIdx = 2

(* ---- C12 ----------------------------------------------------------------- *)

PackageDeleteFailed ==
  /\ InIteration
  /\ LastCall.op = "deletePackage"
  /\ ~LastCall.resp.ok

\* C12: a package delete that fails with not-found is logged as already
\* deleted and the run goes on to the next package (or is complete); any
\* other failure of the package delete fails the run with that error, and
\* no further step follows.
C12_PackageDeleteFailure ==
  PackageDeleteFailed =>
     IF IsNotFound(LastCall.resp.error)
     THEN /\ logs[Len(logs)] = [channel |-> "info", kind |-> "packageDoesNotExist",
                                pkg |-> LastCall.pkg, id |-> 0]
          /\ runError = NoError
          /\ pkgIdx = LastCall.pkg + 1
          /\ pc = IF LastCall.pkg < Len(packages) THEN "list" ELSE "done"
     ELSE /\ logs[Len(logs)].channel = "error"
          /\ pc = "failed"
          /\ runError = LastCall.resp.error
          /\ pkgIdx = LastCall.pkg
          /\ FailedIsFinal

\* C12's case: the package delete of the first of two packages fails with
\* something other than not-found.
C12_Witness ==
  /\ PackageDeleteFailed
  /\ ~IsNotFound(LastCall.resp.error)
  /\ LastCall.pkg = 1
  /\ Len(packages) = 2

(* ---- C13 ----------------------------------------------------------------- *)

ValidInputs == FirstInvalid = "none"

\* The failures C13 names: neither not-found nor, for a version delete, the
\* last-version refusal.
NamedFailure(c) ==
  /\ ~c.resp.ok
  /\ ~IsNotFound(c.resp.error)
  /\ ~(c.op = "deleteVersion" /\ IsLastVersionRefusal(c.resp.error))

\* ... and those that fail the run: these, and every failure of the lookup.
FatalFailure(c) ==
  \/ NamedFailure(c)
  \/ c.op = "getByUsername" /\ ~c.resp.ok

\* C13 as stated: with valid inputs the run fails if and only if a registry
\* call returned a failure that is neither not-found nor, for a version
\* delete, the last-version refusal; otherwise it completes, every package
\* listed.
C13_Original ==
  ValidInputs =>
     /\ pc = "failed" <=> \E k \in DOMAIN calls : NamedFailure(calls[k])
     /\ ~ENABLED Next => pc \in {"done", "failed"}
     /\ pc = "done" => listed = [i \in 1..Len(packages) |-> i]

\* C13 as amended: with valid inputs the run fails if and only if the lookup
\* failed (not-found included) or another registry call returned a failure
\* that is neither not-found nor, for a version delete, the last-version
\* refusal; it then carries that failure.  Otherwise the run ends only when
\* complete, and a complete run has listed every package.
C13_FailsIffFatalFailure ==
  ValidInputs =>
     /\ pc = "failed" <=> \E k \in DOMAIN calls : FatalFailure(calls[k])
     /\ pc = "failed" <=> runError # NoError
     /\ pc = "failed" => runError = LastCall.resp.error
     /\ ~ENABLED Next => pc \in {"done", "failed"}
     /\ pc = "done" => listed = [i \in 1..Len(packages) |-> i]

\* C13's case: a run of two packages that completes although the second
\* package was not found.
C13_Witness ==
  /\ ValidInputs
  /\ pc = "done"
  /\ Len(packages) = 2
  /\ ListingNotFound


(* ---- C16 ----------------------------------------------------------------- *)

\* C16: the account is looked up once, before any listing; the packages are
\* listed in the order of the list, each entry once; every call of an
\* iteration is for the package listed last, so no call for a later package
\* comes before the current one is done; a complete run has listed them all.
C16_OneLookupThenPackagesInOrder ==
  /\ lookups <= 1
  /\ pc \in {"list", "delete", "pkgdelete", "done", "failed"} => lookups = 1
  /\ listed # <<>> => lookups = 1
  /\ listed = [i \in 1..Len(listed) |-> i]
  /\ Len(listed) <= Len(packages)
  /\ pc = "list" => pkgIdx = Len(listed) + 1
  /\ pc \in {"delete", "pkgdelete"} => pkgIdx = Len(listed)
  /\ pc = "done" => Len(listed) = Len(packages)
  /\ InIteration =>
        \A k \in DOMAIN calls :
           /\ calls[k].pkg = listed[Len(listed)]
           /\ calls[k].name = packages[listed[Len(listed)]]
           /\ calls[k].op = "listVersions" <=> k = 1

\* C16's case: a complete run of two packages with a version deleted in the
\* second.
C16_Witness ==
  /\ pc = "done"
  /\ lookups = 1
  /\ listed = <<1, 2>>
  /\ InIteration
  /\ VersionDeletes # {}

(* ---- C18 ----------------------------------------------------------------- *)

\* The matched versions in the order of the listing.
MatchedInOrder ==
  SelectSeq(calls[1].resp.versions, LAMBDA v : v.name \in Requested)

C19_FlagIsPackageScoped ==
  InIteration =>
     /\ pc \in {"delete", "pkgdelete"} => shouldDeletePackage = Refused
     /\ (pc = "delete" /\ VersionDeletes = {}) => ~shouldDeletePackage
     /\ \A k \in PackageDeletes :
           \E j \in VersionDeletes :
              /\ j < k
              /\ calls[j].pkg = calls[k].pkg
              /\ ~calls[j].resp.ok
              /\ IsLastVersionRefusal(calls[j].resp.error)
     /\ (ListingNotFound \/ ListingWithoutMatch) => PackageDeletes = {}

\* C19's case: the version loop of the second package begins.
C19_Witness ==
  /\ InIteration
  /\ calls[1].pkg = 2
  /\ pc = "delete"
  /\ VersionDeletes = {}
  /\ ~shouldDeletePackage

(* ---- C20 ----------------------------------------------------------------- *)

SameLabels(vs) == {vs[i] : i \in DOMAIN vs} = Requested

\* C20: the matched versions, and so the version-delete calls, are the same
\* for every list of requested versions with the same labels, in whatever
\* order and however often repeated; the calls follow the matched versions
\* and no id is deleted twice.
C20_OnlyTheLabelSetMatters ==
  (InIteration /\ calls[1].resp.ok) =>
     /\ \A vs \in RequestedVersions :
           SameLabels(vs) =>
              VersionsToDelete(calls[1].resp.versions, vs) = versionsToDelete
     /\ \A k \in VersionDeletes : calls[k].id = versionsToDelete[k - 1].id
     /\ \A k \in VersionDeletes : Cardinality(VersionDeletesOf(calls[k].id)) = 1

\* C20's case: the labels were requested in the order opposite to the
\* listing's, and both versions were deleted in the listing's order.
C20_Witness ==
  /\ InIteration
  /\ versions = <<"2.0.0", "1.0.0">>
  /\ Len(calls) >= 3
  /\ calls[2].op = "deleteVersion" /\ calls[2].id = 1
  /\ calls[3].op = "deleteVersion" /\ calls[3].id = 2

(* ---- C14 ----------------------------------------------------------------- *)

\* A required input was not given: getInput() returned the empty string.
MissingRequired ==
  env.package_type = "" \/ env.packages = <<>> \/ env.versions = <<>>

\* C14: when package_type, packages or versions is missing from the inputs
\* read by getInputs, the run exits at the validation and no registry call
\* (lookup, listing, deletion) is ever made.
C14_Original ==
  (pc # "inputs" /\ MissingRequired) =>
     /\ pc \in {"start", "exited"}
     /\ lookups = 0
     /\ calls = <<>>

(* ---- C17 ----------------------------------------------------------------- *)

\* The fields of a list written with a comma between them.
RECURSIVE Join(_)
Join(fields) ==
  IF fields = <<>> THEN <<>>
  ELSE LET first == IF Head(fields) = "" THEN <<>> ELSE <<Head(fields)>>
       IN IF Len(fields) = 1 THEN first
          ELSE first \o <<",">> \o Join(Tail(fields))

Commas(s) == Cardinality({i \in DOMAIN s : s[i] = ","})

\* fields are the fields of the input string s, in the order of s.
SplitInOrder(fields, s) ==
  /\ Len(fields) = Commas(s) + 1
  /\ \A i \in DOMAIN fields : fields[i] # ","
  /\ Join(fields) = s

\* C17: the owner returned by getInputs is the owner input when it is not
\* empty and the owner of the repository otherwise; packages and versions
\* are the fields of their input strings between the commas, in order.
C17_GetInputs ==
  pc # "inputs" =>
     /\ env.owner # "" => owner = env.owner
     /\ env.owner = "" => owner = env.repo_owner
     /\ SplitInOrder(packages, env.packages)
     /\ SplitInOrder(versions, env.versions)

\* C17's case: no owner input and two packages given, the second name of
\* the model first.
C17_Witness ==
  /\ pc = "start"
  /\ env.owner = ""
  /\ owner = "repo-owner"
  /\ env.packages = <<"libB", ",", "libA">>
  /\ packages = <<"libB", "libA">>

(* ---- C15 ----------------------------------------------------------------- *)

\* C15: in a second run with the same inputs, after a first run that
\* completed against a registry answering faithfully, no version-delete and
\* no package-delete call is made.
C15_SecondRunDeletesNothing ==
  runNo = 2 => (VersionDeletes = {} /\ PackageDeletes = {})

\* C15's case: the first run changed the registry, and the second run has
\* listed every package and completed.
C15_Witness ==
  /\ runNo = 2
  /\ pc = "done"
  /\ registry # registry0
  /\ Len(listed) = Len(packages)
  /\ Len(packages) = MaxPkgs

(* ---- C24 ----------------------------------------------------------------- *)

\* A version-delete call failed with status 404 and the last-version message.
NotFoundWithLastVersionMessage(k) ==
  /\ k \in VersionDeletes
  /\ ~calls[k].resp.ok
  /\ calls[k].resp.error.status = 404
  /\ Includes(calls[k].resp.error.message, LastVersionNeedle)

\* A version-delete call failed with another status and that message.
FlaggingFailure(k) ==
  /\ k \in VersionDeletes
  /\ ~calls[k].resp.ok
  /\ calls[k].resp.error.status # 404
  /\ Includes(calls[k].resp.error.message, LastVersionNeedle)

\* C24: a version-delete failure with status 404 is handled as not found
\* whatever its message: the flag is set, and the package delete called,
\* only when a failure with another status carried the last-version message;
\* right after a 404 the flag is set only if it was set before.
C24_NotFoundBeforeRefusal ==
  InIteration =>
     /\ (pc \in {"delete", "pkgdelete"} /\ shouldDeletePackage) =>
           \E k \in VersionDeletes : FlaggingFailure(k)
     /\ PackageDeletes # {} => \E k \in VersionDeletes : FlaggingFailure(k)
     /\ \A k \in VersionDeletes :
           NotFoundWithLastVersionMessage(k) =>
              Logged("info", "versionNotFound", calls[k].pkg)

\* C24's case: the only matched version's delete failed with status 404 and
\* the last-version message; the iteration ended without a package delete.
C24_Witness ==
  /\ InIteration
  /\ pc \in {"list", "done"}
  /\ Len(calls) = 2
  /\ NotFoundWithLastVersionMessage(2)
  /\ ~shouldDeletePackage

(* ---- C21 ----------------------------------------------------------------- *)

\* The run has ended: process.exit(1), run() resolved, or run() rejected.
Terminated == pc \in {"exited", "done", "failed"}

\* The calls of the run so far: at most one lookup, no package listed
\* twice, and in the current iteration one listing, at most one delete call
\* per matched version, at most one package delete, and no call issued again
\* after it failed.
NoRetry ==
  /\ lookups <= 1
  /\ \A i, j \in DOMAIN listed : i < j => listed[i] < listed[j]
  /\ Len(listed) <= Len(packages)
  /\ InIteration =>
        /\ \A k \in DOMAIN calls : calls[k].op = "listVersions" <=> k = 1
        /\ calls[1].resp.ok =>
              \A k \in VersionDeletes : calls[k].id \in MatchedIds
        /\ \A k \in VersionDeletes : Cardinality(VersionDeletesOf(calls[k].id)) = 1
        /\ Cardinality(VersionDeletes) <= Cardinality(MatchedIds)
        /\ Cardinality(PackageDeletes) <= 1
        /\ \A j, k \in DOMAIN calls :
              (j < k /\ ~calls[j].resp.ok) =>
                 ~(calls[k].op = calls[j].op /\ calls[k].id = calls[j].id)

\* C21: when every registry call returns, the run ends, in success or in
\* failure, and until then it makes one lookup and per package at most one
\* listing, one delete call per matched version and one package delete,
\* never issuing a failed call again.
C21_TerminatesWithoutRetry == []NoRetry /\ <>[]Terminated

\* C21's case: the run ended after the last package, two of whose calls
\* failed (a version that was missing, a version that was refused) and were
\* not issued again before the package delete.
C21_Witness ==
  /\ pc = "done"
  /\ InIteration
  /\ Len(calls) = 4
  /\ ~calls[2].resp.ok
  /\ ~calls[3].resp.ok
  /\ calls[4].op = "deletePackage"

(* ---- C22 ----------------------------------------------------------------- *)

\* The names in the package list.
RequestedPackages == {packages[i] : i \in DOMAIN packages}

\* The ids of the versions package name has in registry reg.
IdsOf(reg, name) == {reg.pkgs[name][i] : i \in DOMAIN reg.pkgs[name]}

\* No version with a requested label is left in a requested package.
RequestedVersionsGone ==
  \A p \in RequestedPackages :
     \A id \in IdsOf(registry, p) : VersionName(id) \notin Requested

\* Every version the registry held before the first run whose label was
\* not requested is still there, in the listed packages and in the others.
OtherVersionsKept ==
  \A p \in PkgNames :
     \A id \in IdsOf(registry0, p) :
        VersionName(id) \notin Requested => id \in IdsOf(registry, p)

\* C22: against a registry that answers faithfully and that nobody else
\* changes, when the run has completed no version with a requested label is
\* left in a requested package, and every version whose label was not
\* requested still exists.
C22_RequestedGoneOthersKept ==
  pc = "done" => (RequestedVersionsGone /\ OtherVersionsKept)

\* C22's case: the first package had a requested and another version and
\* keeps the other one; the second package had only a requested version and
\* was deleted as a whole.
C22_Witness ==
  /\ pc = "done"
  /\ runNo = 1
  /\ Len(packages) = 2
  /\ packages[1] # packages[2]
  /\ versions = <<"1.0.0">>
  /\ IdsOf(registry0, packages[1]) = {1, 2}
  /\ IdsOf(registry, packages[1]) = {2}
  /\ IdsOf(registry0, packages[2]) = {1}
  /\ IdsOf(registry, packages[2]) = {}

(* ---- C23 ----------------------------------------------------------------- *)

\* The versions of package name that a step removes from the registry.
RemovedFrom(name) ==
  {registry.pkgs[name][i] : i \in DOMAIN registry.pkgs[name]} \
  {registry'.pkgs[name][i] : i \in DOMAIN registry'.pkgs[name]}

\* C23: while another actor publishes new versions of the package between
\* the listing (or the refusal) and the package delete, no step of the run
\* removes a version whose label was not requested.
C23_Original ==
  [][\A p \in PkgNames : \A id \in RemovedFrom(p) : VersionName(id) \in Requested]_vars

====
